---- MODULE Spec2Model ----
\* Model of the content-ordering utility getSortedEvents (both source
\* variants: ordering by data.date and by data.pubDatetime) and of the
\* Event list-item component, as a state machine over the caller's array of
\* collection entries and the value the utility returns.
EXTENDS Integers, Sequences, FiniteSets

VARIABLES
    variant,      \* which source variant of getSortedEvents is built
    heap,         \* array objects: reference -> sequence of entries
    ret,          \* reference returned by the last getSortedEvents call (NoRef: none)
    thrown,       \* exception raised by the last call ("none": returned normally)
    loaded,       \* the collection as the content loader produced it
    pc,           \* "loaded", "sorted" (one call made), "resorted" (result sorted again)
    frontmatter,  \* the record handed to Event
    display,      \* what Event returned (children of the <li>), <<>> before the call
    rendered,     \* whether Event has been called
    renderThrown, \* exception raised by Event ("none": returned normally)
    showTime,     \* whether the page wants the time of day next to the date
    page          \* the list the page rendered: Event's output per sorted entry

vars == <<variant, heap, ret, thrown, loaded, pc, frontmatter, display, rendered,
          renderThrown, showTime, page>>

\* ---------------------------------------------------------------- bounds
MaxLen == 3
MaxSeconds == 2

\* ------------------------------------------------------- JS values
Undefined == "<undefined>"

NaN == [nan |-> TRUE, v |-> 0]
Num(n) == [nan |-> FALSE, v |-> n]

\* JS truthiness of an optional string field: undefined and "" are falsy.
Truthy(s) == s # Undefined /\ s # ""

\* A date field as the content loader hands it over: absent, a string that is
\* not a date, an ISO-8601 UTC string YYYY-MM-DDTHH:mm:ss.sssZ (its seven
\* numeric components), or a Date object (its time value in ms).
NoDate == [kind |-> "undefined", f |-> <<>>]
NotADate == [kind |-> "text", f |-> <<>>]
Iso(y, mo, d, h, mi, s, ms) == [kind |-> "iso", f |-> <<y, mo, d, h, mi, s, ms>>]
DateObj(t) == [kind |-> "Date", f |-> <<t>>]

IsLeap(y) == (y % 4 = 0 /\ y % 100 # 0) \/ y % 400 = 0

DaysInMonth(y, mo) ==
    IF mo = 2 THEN (IF IsLeap(y) THEN 29 ELSE 28)
    ELSE IF mo \in {4, 6, 9, 11} THEN 30 ELSE 31

\* Days from 1970-01-01 to the civil date y-mo-d (proleptic Gregorian).
DaysFromCivil(y, mo, d) ==
    LET yy == IF mo <= 2 THEN y - 1 ELSE y
        era == yy \div 400
        yoe == yy - era * 400
        mp == (mo + 9) % 12
        doy == (153 * mp + 2) \div 5 + d - 1
        doe == yoe * 365 + yoe \div 4 - yoe \div 100 + doy
    IN era * 146097 + doe - 719468

\* new Date(value).getTime(): the time value in ms, NaN for an Invalid Date.
GetTime(value) ==
    CASE value.kind = "undefined" -> NaN
      [] value.kind = "text" -> NaN
      [] value.kind = "Date" -> Num(value.f[1])
      [] value.kind = "iso" ->
            LET y == value.f[1]  mo == value.f[2]  d == value.f[3]
                h == value.f[4]  mi == value.f[5]  s == value.f[6]
                ms == value.f[7]
            IN IF /\ mo \in 1..12
                  /\ d \in 1..DaysInMonth(y, mo)
                  /\ h \in 0..23 /\ mi \in 0..59 /\ s \in 0..59 /\ ms \in 0..999
               THEN Num((((DaysFromCivil(y, mo, d) * 24 + h) * 60 + mi) * 60 + s) * 1000 + ms)
               ELSE NaN

\* Mutant: truncation toward zero (t / 1000 | 0) instead of Math.floor.
FloorSecondsTruncating(t) ==
    IF t.nan THEN NaN
    ELSE IF t.v >= 0 THEN Num(t.v \div 1000) ELSE Num(-((-t.v) \div 1000))

\* Math.floor(t / 1000)
FloorSeconds(t) == IF t.nan THEN NaN ELSE Num(t.v \div 1000)

\* JS subtraction on numbers
Minus(x, y) == IF x.nan \/ y.nan THEN NaN ELSE Num(x.v - y.v)

\* The field the variant orders by.
OrderingField(vr, post) ==
    IF vr = "date" THEN post.data.date ELSE post.data.pubDatetime

\* Mutant: operands exchanged, which orders oldest first.
ComparatorAscending(vr, a, b) ==
    Minus(FloorSeconds(GetTime(OrderingField(vr, a))),
          FloorSeconds(GetTime(OrderingField(vr, b))))

\* Mutant: the data.date variant alone has its operands exchanged.
ComparatorDateAscending(vr, a, b) ==
    IF vr = "date"
    THEN Minus(FloorSeconds(GetTime(OrderingField(vr, a))),
               FloorSeconds(GetTime(OrderingField(vr, b))))
    ELSE Minus(FloorSeconds(GetTime(OrderingField(vr, b))),
               FloorSeconds(GetTime(OrderingField(vr, a))))

\* Mutant: a two-way comparator that never answers "equal".
ComparatorNoTie(vr, a, b) ==
    LET d == Minus(FloorSeconds(GetTime(OrderingField(vr, b))),
                   FloorSeconds(GetTime(OrderingField(vr, a))))
    IN IF d.nan THEN d ELSE IF d.v > 0 THEN Num(1) ELSE Num(-1)

\* Mutant: the time values are compared without truncation to seconds.
ComparatorMillis(vr, a, b) ==
    Minus(GetTime(OrderingField(vr, b)), GetTime(OrderingField(vr, a)))

\* Mutant: records of the same second are ordered by their completed flag.
ComparatorThenCompleted(vr, a, b) ==
    LET d == Minus(FloorSeconds(GetTime(OrderingField(vr, b))),
                   FloorSeconds(GetTime(OrderingField(vr, a))))
        flag(p) == IF p.data.completed THEN 1 ELSE 0
    IN IF d.nan \/ d.v # 0 THEN d ELSE Num(flag(a) - flag(b))

\* The comparator handed to Array.prototype.sort.
Comparator(vr, a, b) ==
    Minus(FloorSeconds(GetTime(OrderingField(vr, b))),
          FloorSeconds(GetTime(OrderingField(vr, a))))

\* SortCompare of Array.prototype.sort: a NaN comparator result counts as +0.
SortCompare(vr, a, b) ==
    LET v == Comparator(vr, a, b) IN IF v.nan THEN 0 ELSE v.v

Elements(seq) == {seq[i] : i \in 1..Len(seq)}

\* ECMAScript's "consistent comparator" conditions over the values being
\* sorted, from the comparator's answer for every pair of them.
ConsistentComparator(vr, seq) ==
    LET n == Len(seq)
        results == {<<i, j, SortCompare(vr, seq[i], seq[j])>> : i \in 1..n, j \in 1..n}
        eq == {<<r[1], r[2]>> : r \in {x \in results : x[3] = 0}}
        lt == {<<r[1], r[2]>> : r \in {x \in results : x[3] < 0}}
        gt == {<<r[1], r[2]>> : r \in {x \in results : x[3] > 0}}
    IN /\ \A a \in 1..n : <<a, a>> \in eq
       /\ \A a, b \in 1..n : <<a, b>> \in eq => <<b, a>> \in eq
       /\ \A a, b, c \in 1..n :
            /\ (<<a, b>> \in eq /\ <<b, c>> \in eq) => <<a, c>> \in eq
            /\ (<<a, b>> \in lt /\ <<b, c>> \in lt) => <<a, c>> \in lt
            /\ (<<a, b>> \in gt /\ <<b, c>> \in gt) => <<a, c>> \in gt

\* Mutant: x also passes the elements it compares equal to.
RECURSIVE InsertSortedUnstable(_, _, _)
InsertSortedUnstable(vr, run, x) ==
    IF run = <<>> THEN <<x>>
    ELSE LET last == run[Len(run)]
             front == SubSeq(run, 1, Len(run) - 1)
         IN IF SortCompare(vr, last, x) >= 0
            THEN Append(InsertSortedUnstable(vr, front, x), last)
            ELSE Append(run, x)

\* Insert x into an already sorted run, behind every element that does not
\* compare greater than it (insertion from the right keeps equal elements in
\* arrival order).
RECURSIVE InsertSorted(_, _, _)
InsertSorted(vr, run, x) ==
    IF run = <<>> THEN <<x>>
    ELSE LET last == run[Len(run)]
             front == SubSeq(run, 1, Len(run) - 1)
         IN IF SortCompare(vr, last, x) > 0
            THEN Append(InsertSorted(vr, front, x), last)
            ELSE Append(run, x)

\* The stable sort Array.prototype.sort performs under a consistent comparator.
RECURSIVE StableSort(_, _)
StableSort(vr, seq) ==
    IF seq = <<>> THEN <<>>
    ELSE InsertSorted(vr, StableSort(vr, SubSeq(seq, 1, Len(seq) - 1)), seq[Len(seq)])

\* Every reordering of seq.
RECURSIVE Reorderings(_)
Reorderings(seq) ==
    IF seq = <<>> THEN {<<>>}
    ELSE LET n == Len(seq)
             x == seq[n]
         IN {SubSeq(r, 1, k) \o <<x>> \o SubSeq(r, k + 1, n - 1) :
                r \in Reorderings(SubSeq(seq, 1, n - 1)), k \in 0..(n - 1)}

\* Every order Array.prototype.sort may leave the array in: the stable sorted
\* order when the comparator is consistent, an implementation-defined
\* permutation otherwise.
SortOutcomes(vr, seq) ==
    IF ConsistentComparator(vr, seq) THEN {StableSort(vr, seq)} ELSE Reorderings(seq)

\* Mutant: entries not completed are filtered out before sorting.
getSortedEventsCompletedOnly(vr, h, ref) ==
    LET kept == SelectSeq(h[ref], LAMBDA p : p.data.completed)
    IN {[heap |-> [h EXCEPT !["fresh"] = r], ret |-> "fresh", thrown |-> "none"] :
           r \in SortOutcomes(vr, kept)}

\* Mutant: the first entry is read before sorting, which fails on [].
getSortedEventsReadingFirst(vr, h, ref) ==
    IF h[ref] = <<>>
    THEN {[heap |-> h, ret |-> "none", thrown |-> "TypeError"]}
    ELSE {[heap |-> [h EXCEPT ![ref] = r], ret |-> ref, thrown |-> "none"] :
             r \in SortOutcomes(vr, h[ref])}

\* Mutant: a hand-written exchange loop that never settles two entries that
\* compare as equal, so the call does not return.
getSortedEventsSpinningOnTies(vr, h, ref) ==
    IF \E i, j \in 1..Len(h[ref]) : i # j /\ SortCompare(vr, h[ref][i], h[ref][j]) = 0
    THEN {}
    ELSE {[heap |-> [h EXCEPT ![ref] = r], ret |-> ref, thrown |-> "none"] :
             r \in SortOutcomes(vr, h[ref])}

\* Mutant: a date that does not parse is rejected.
getSortedEventsValidating(vr, h, ref) ==
    IF \E i \in 1..Len(h[ref]) : GetTime(OrderingField(vr, h[ref][i])).nan
    THEN {[heap |-> h, ret |-> "none", thrown |-> "InvalidTimestamp"]}
    ELSE {[heap |-> [h EXCEPT ![ref] = r], ret |-> ref, thrown |-> "none"] :
             r \in SortOutcomes(vr, h[ref])}

\* posts.sort(comparator): sorts the array object in place and returns it.
getSortedEvents(vr, h, ref) ==
    {[heap |-> [h EXCEPT ![ref] = r], ret |-> ref, thrown |-> "none"] :
        r \in SortOutcomes(vr, h[ref])}

\* ------------------------------------------------- the speaking collection
\* Instants around the epoch, so that the millisecond time values stay small:
\* -1 ms, 0 ms, 999 ms (same whole second as 0 ms), one day and a second
\* later, and -1500 ms held by a Date object.
TMinus == Iso(1969, 12, 31, 23, 59, 59, 999)
TZero == Iso(1970, 1, 1, 0, 0, 0, 0)
TZeroLate == Iso(1970, 1, 1, 0, 0, 0, 999)
TNext == Iso(1970, 1, 2, 0, 0, 1, 0)
TEarly == DateObj(-1500)

\* A collection entry; the fields the sorter never reads are fixed except
\* for name and completed.
Post(date, pubDatetime, name, completed) ==
    [data |-> [date |-> date, pubDatetime |-> pubDatetime, name |-> name,
               organizer |-> "Conf", link |-> "https://event",
               websiteLink |-> Undefined, description |-> "About",
               completed |-> completed]]

Posts ==
    { Post(TZero, TZero, "A", TRUE),
      Post(TZero, TZero, "B", FALSE),
      Post(TZeroLate, TZeroLate, "A", TRUE),
      Post(TMinus, TMinus, "A", TRUE),
      Post(TNext, TNext, "A", FALSE),
      Post(NotADate, NotADate, "A", TRUE),
      Post(NoDate, TNext, "A", TRUE),
      Post(TEarly, TMinus, "B", TRUE) }

Collections == UNION {[1..n -> Posts] : n \in 0..MaxLen}

NoRef == "none"

\* ------------------------------------------------------------ the sorter
Init ==
    /\ variant \in {"date", "pubDatetime"}
    /\ loaded \in Collections
    /\ heap = [posts |-> loaded, fresh |-> <<>>]
    /\ ret = NoRef
    /\ thrown = "none"
    /\ pc = "loaded"
    /\ frontmatter = Post(TZero, TZero, "A", TRUE).data
    /\ display = <<>>
    /\ rendered = FALSE
    /\ renderThrown = "none"
    /\ showTime = FALSE
    /\ page = <<>>

renderVars == <<frontmatter, display, rendered, renderThrown, showTime, page>>

\* One call getSortedEvents(arg) of the built variant.
Call(vr, arg, next) ==
    /\ variant = vr
    /\ \E out \in getSortedEvents(vr, heap, arg) :
          /\ heap' = out.heap
          /\ ret' = out.ret
          /\ thrown' = out.thrown
    /\ pc' = next
    /\ UNCHANGED <<variant, loaded, renderVars>>

\* The page sorts the loaded collection.
SortByDate == pc = "loaded" /\ Call("date", "posts", "sorted")
SortByPubDatetime == pc = "loaded" /\ Call("pubDatetime", "posts", "sorted")

Next == SortByDate \/ SortByPubDatetime

Spec == Init /\ [][Next]_vars

\* The returned array is handed to getSortedEvents once more.
ResortByDate ==
    pc = "sorted" /\ thrown = "none" /\ Call("date", ret, "resorted")
ResortByPubDatetime ==
    pc = "sorted" /\ thrown = "none" /\ Call("pubDatetime", ret, "resorted")

\* Collections whose ordering dates all parse, sorted and sorted again.
InitValid ==
    /\ Init
    /\ \A i \in 1..Len(loaded) : ~GetTime(OrderingField(variant, loaded[i])).nan

NextTwice == SortByDate \/ SortByPubDatetime \/ ResortByDate \/ ResortByPubDatetime

SpecTwice == InitValid /\ [][NextTwice]_vars

\* The array the last call returned.
Result == heap[ret]

\* ---------------------------------------------------------- the renderer
\* A rendered element. Props an element does not carry hold their defaults
\* (Undefined, FALSE, NoDate); text is the element's own text child.
Element(tag, href, target, text, children) ==
    [tag |-> tag, href |-> href, target |-> target, text |-> text,
     children |-> children, hideTime |-> FALSE, datetime |-> NoDate]

\* {value} as a child: undefined renders nothing.
TextChild(value) == IF value = Undefined THEN "" ELSE value

\* Mutant: the date element is asked to show the time of day.
DatetimeElementWithTime(date) ==
    [tag |-> "Datetime", href |-> Undefined, target |-> Undefined, text |-> "",
     children |-> <<>>, hideTime |-> FALSE, datetime |-> date]

\* <Datetime hideTime={true} datetime={date} />
DatetimeElement(date) ==
    [tag |-> "Datetime", href |-> Undefined, target |-> Undefined, text |-> "",
     children |-> <<>>, hideTime |-> TRUE, datetime |-> date]

\* Mutant: the website anchor points at the talk's link.
WebsiteLinkPartToLink(fm) ==
    IF Truthy(fm.websiteLink)
    THEN <<[tag |-> "a", href |-> fm.link, target |-> Undefined,
            text |-> fm.websiteLink, children |-> <<>>, hideTime |-> FALSE,
            datetime |-> NoDate]>>
    ELSE <<>>

\* {websiteLink && <a href={websiteLink}>{websiteLink}</a>}
WebsiteLinkPart(fm) ==
    IF Truthy(fm.websiteLink)
    THEN <<Element("a", fm.websiteLink, Undefined, fm.websiteLink, <<>>)>>
    ELSE <<>>

\* Mutant: the heading is wrapped in an anchor whether or not link is set.
HeadingPartAlwaysLink(fm) ==
    <<[tag |-> "a", href |-> fm.link, target |-> "_blank", text |-> "",
       children |-> <<[tag |-> "h2", href |-> Undefined, target |-> Undefined,
                       text |-> (IF fm.name = Undefined THEN "" ELSE fm.name),
                       children |-> <<>>, hideTime |-> FALSE, datetime |-> NoDate]>>,
       hideTime |-> FALSE, datetime |-> NoDate]>>

\* {link ? <a target="_blank" href={link}><h2>{name}</h2></a> : <h2>{name}</h2>}
HeadingPart(fm) ==
    LET h2 == Element("h2", Undefined, Undefined, TextChild(fm.name), <<>>)
    IN IF Truthy(fm.link)
       THEN <<Element("a", fm.link, "_blank", "", <<h2>>)>>
       ELSE <<h2>>

\* Event({ frontmatter }): the children of the <li> it returns.
Event(fm) ==
    [thrown |-> "none",
     children |->
        <<Element("h3", Undefined, Undefined, TextChild(fm.organizer), <<>>)>>
        \o WebsiteLinkPart(fm)
        \o HeadingPart(fm)
        \o <<DatetimeElement(fm.date)>>
        \o <<Element("p", Undefined, Undefined, TextChild(fm.description), <<>>)>>]

Frontmatters ==
    [date : {NoDate, TZero, TNext},
     pubDatetime : {NoDate, TZero},
     name : {Undefined, "Talk"},
     organizer : {Undefined, "Conf"},
     link : {Undefined, "", "https://event"},
     websiteLink : {Undefined, "", "https://organizer", "https://event"},
     description : {Undefined, "", "About"},
     completed : {TRUE}]

InitRender ==
    /\ variant = "date"
    /\ loaded = <<>>
    /\ heap = [posts |-> <<>>, fresh |-> <<>>]
    /\ ret = NoRef
    /\ thrown = "none"
    /\ pc = "loaded"
    /\ frontmatter \in Frontmatters
    /\ showTime \in BOOLEAN
    /\ page = <<>>
    /\ display = <<>>
    /\ rendered = FALSE
    /\ renderThrown = "none"

\* The page hands one record to Event; Props holds frontmatter alone, so
\* whatever else the page wants (showTime) does not reach the component.
Render ==
    /\ ~rendered
    /\ LET out == Event(frontmatter)
       IN /\ display' = out.children
          /\ renderThrown' = out.thrown
    /\ rendered' = TRUE
    /\ UNCHANGED <<variant, heap, ret, thrown, loaded, pc, frontmatter, showTime, page>>

NextRender == Render

SpecRender == InitRender /\ [][NextRender]_vars

\* ================================================================ claims
\* Helpers of the properties below.
TimeOf(vr, post) == GetTime(OrderingField(vr, post))

ValidTimestamps(vr, seq) == \A i \in 1..Len(seq) : ~TimeOf(vr, seq[i]).nan

\* The whole second a valid timestamp falls in.
WholeSecond(vr, post) == TimeOf(vr, post).v \div 1000

Count(seq, x) == Cardinality({i \in 1..Len(seq) : seq[i] = x})

IsPermutation(s, t) ==
    /\ Len(s) = Len(t)
    /\ \A x \in Elements(s) \cup Elements(t) : Count(s, x) = Count(t, x)

Returned == pc \in {"sorted", "resorted"} /\ thrown = "none" /\ ret # NoRef

\* The scenario [A mid, B latest, C earliest], with instants around the epoch.
ScenarioA == Post(TZero, TZero, "A", TRUE)
ScenarioB == Post(TNext, TNext, "A", FALSE)
ScenarioC == Post(TMinus, TMinus, "A", TRUE)

\* C1 (as claimed): with valid timestamps, every adjacent pair of the result
\* is in descending order of the records' actual (millisecond) timestamps.
C1_DescendingByActualTimestamp ==
    (Returned /\ ValidTimestamps(variant, loaded)) =>
        \A i \in 1..(Len(Result) - 1) :
            TimeOf(variant, Result[i]).v >= TimeOf(variant, Result[i + 1]).v

\* C1 (amended): with valid timestamps, every adjacent pair of the result is
\* in descending order of the timestamps truncated to whole seconds, and the
\* scenario [A, B, C] comes out as [B, A, C].
C1_DescendingByWholeSecond ==
    (Returned /\ ValidTimestamps(variant, loaded)) =>
        /\ \A i \in 1..(Len(Result) - 1) :
              WholeSecond(variant, Result[i]) >= WholeSecond(variant, Result[i + 1])
        /\ loaded = <<ScenarioA, ScenarioB, ScenarioC>> =>
              Result = <<ScenarioB, ScenarioA, ScenarioC>>

C1_Witness ==
    /\ pc = "sorted" /\ ret # NoRef
    /\ loaded = <<ScenarioA, ScenarioB, ScenarioC>>
    /\ Result = <<ScenarioB, ScenarioA, ScenarioC>>

\* C2: with valid timestamps the result is a permutation of the input: same
\* length, same multiset of records, every record unchanged.
C2_Permutation ==
    (Returned /\ ValidTimestamps(variant, loaded)) => IsPermutation(Result, loaded)

C2_Witness ==
    /\ pc = "sorted" /\ ret # NoRef
    /\ ValidTimestamps(variant, loaded)
    /\ Len(loaded) = MaxLen
    /\ Result # loaded
    /\ \E i, j \in 1..Len(loaded) : i # j /\ loaded[i] = loaded[j]

\* C3 (as claimed): an input holding a record whose date cannot be parsed
\* makes the call fail with InvalidTimestamp and return no ordering.
C3_InvalidTimestampRaised ==
    (pc = "sorted" /\ ~ValidTimestamps(variant, loaded)) =>
        (thrown = "InvalidTimestamp" /\ ret = NoRef)

\* C5 (as claimed): the call leaves the caller's array in its original order
\* and returns a fresh array, not the argument.
C5_ArgumentUntouchedResultFresh ==
    pc = "sorted" => (heap["posts"] = loaded /\ ret # "posts")

\* C6: with valid timestamps, sorting the result once more leaves its order
\* exactly as it was.
C6_Idempotent ==
    [][(pc = "sorted" /\ pc' = "resorted" /\ ValidTimestamps(variant, loaded))
          => heap'[ret'] = heap[ret]]_vars

C6_Witness ==
    /\ pc = "resorted" /\ ret # NoRef
    /\ ValidTimestamps(variant, loaded)
    /\ Len(loaded) = MaxLen
    /\ Result # loaded
    /\ \E i, j \in 1..Len(loaded) :
          /\ loaded[i] # loaded[j]
          /\ WholeSecond(variant, loaded[i]) = WholeSecond(variant, loaded[j])

Tagged(seq) == [i \in 1..Len(seq) |-> [data |-> seq[i].data, pos |-> i]]

\* The orders of input positions a call may produce for seq.
PositionOrders(vr, seq) ==
    {[i \in 1..Len(r) |-> r[i].pos] : r \in SortOutcomes(vr, Tagged(seq))}

\* Every sequence that agrees with seq, position by position, on the
\* ordering date and may differ in every other field.
RECURSIVE SameDateVariants(_, _)
SameDateVariants(vr, seq) ==
    IF seq = <<>> THEN {<<>>}
    ELSE LET last == seq[Len(seq)]
             alts == {p \in Posts : OrderingField(vr, p) = OrderingField(vr, last)}
         IN {Append(t, p) : t \in SameDateVariants(vr, SubSeq(seq, 1, Len(seq) - 1)),
                            p \in alts}

\* C8: the date is the sole ordering key: the orders of positions a call may
\* put the loaded collection into are those it may put every collection with
\* the same dates, position by position, into, whatever the other fields
\* hold; and the result of the call is the input taken in one of these orders.
C8_DateIsSoleKey ==
    /\ pc = "loaded" =>
          LET own == PositionOrders(variant, loaded)
          IN \A t \in SameDateVariants(variant, loaded) :
                PositionOrders(variant, t) = own
    /\ (pc = "sorted" /\ ret # NoRef) =>
          \E o \in PositionOrders(variant, loaded) :
              Result = [i \in 1..Len(loaded) |-> loaded[o[i]]]

C8_Witness ==
    /\ pc = "sorted" /\ ret # NoRef
    /\ Result # loaded
    /\ \E i, j \in 1..Len(loaded) :
          /\ OrderingField(variant, loaded[i]) = OrderingField(variant, loaded[j])
          /\ loaded[i].data.completed # loaded[j].data.completed
          /\ loaded[i].data.name # loaded[j].data.name
    /\ \E t \in SameDateVariants(variant, loaded) : t # loaded

\* An optional link field holds a target: it is set and not the empty string.
Present(value) == value # Undefined /\ value # ""

\* The anchors among the rendered children, and those that wrap the heading.
Anchors == {i \in 1..Len(display) : display[i].tag = "a"}
HeadingAnchors ==
    {i \in Anchors : display[i].children # <<>> /\ display[i].children[1].tag = "h2"}
PlainHeadings == {i \in 1..Len(display) : display[i].tag = "h2"}

\* C4 (as claimed): a record without a name makes Event fail with
\* MissingRequiredField and produce no display item.
C4_MissingTitleRaised ==
    (rendered /\ frontmatter.name = Undefined) =>
        (renderThrown = "MissingRequiredField" /\ display = <<>>)

\* C9: the heading is an anchor to the record's link exactly when link is
\* present; otherwise it is a plain heading without a target.
C9_HeadingLinkIffLinkPresent ==
    rendered =>
        IF Present(frontmatter.link)
        THEN /\ PlainHeadings = {}
             /\ Cardinality(HeadingAnchors) = 1
             /\ \A i \in HeadingAnchors :
                   /\ display[i].href = frontmatter.link
                   /\ display[i].children[1].text = TextChild(frontmatter.name)
        ELSE /\ HeadingAnchors = {}
             /\ Cardinality(PlainHeadings) = 1
             /\ \A i \in PlainHeadings :
                   /\ display[i].href = Undefined
                   /\ display[i].text = TextChild(frontmatter.name)

C9_Witness ==
    /\ rendered
    /\ frontmatter.link = Undefined
    /\ frontmatter.websiteLink = "https://organizer"
    /\ frontmatter.name = "Talk"
    /\ Cardinality(PlainHeadings) = 1

\* C10: with link and websiteLink both present there are exactly two anchors:
\* one to websiteLink that does not hold the heading, and the heading's
\* anchor to link.
C10_TwoDistinctAnchors ==
    (rendered /\ Present(frontmatter.link) /\ Present(frontmatter.websiteLink)) =>
        /\ Cardinality(Anchors) = 2
        /\ Cardinality(HeadingAnchors) = 1
        /\ \A i \in HeadingAnchors : display[i].href = frontmatter.link
        /\ \A i \in Anchors \ HeadingAnchors :
              /\ display[i].href = frontmatter.websiteLink
              /\ display[i].children = <<>>

C10_Witness ==
    /\ rendered
    /\ frontmatter.link = "https://event"
    /\ frontmatter.websiteLink = "https://organizer"
    /\ Cardinality(Anchors) = 2

\* The rendered children with a given tag.
ChildrenTagged(tag) == {i \in 1..Len(display) : display[i].tag = tag}

\* C11 (as claimed): for each optional field (websiteLink, link, description)
\* that is absent, the output holds no element for it, not an empty one.
C11_AbsentFieldOmitsElement ==
    rendered =>
        /\ frontmatter.websiteLink = Undefined => Anchors \ HeadingAnchors = {}
        /\ frontmatter.link = Undefined => HeadingAnchors = {}
        /\ frontmatter.description = Undefined => ChildrenTagged("p") = {}

C14_EmptyInEmptyOut ==
    (pc = "sorted" /\ loaded = <<>>) =>
        (thrown = "none" /\ ret # NoRef /\ Result = <<>>)

C14_Witness == pc = "sorted" /\ loaded = <<>> /\ ret # NoRef

C17_InvalidDateKeepsAllRecords ==
    (pc = "sorted" /\ ~ValidTimestamps(variant, loaded)) =>
        (thrown = "none" /\ ret # NoRef /\ IsPermutation(Result, loaded))

C17_Witness ==
    /\ pc = "sorted" /\ ret # NoRef
    /\ ~ValidTimestamps(variant, loaded)
    /\ ~ConsistentComparator(variant, loaded)
    /\ Len(loaded) = MaxLen
    /\ Result # loaded

RenderList ==
    /\ pc = "sorted" /\ thrown = "none"
    /\ page' = [i \in 1..Len(Result) |-> Event(Result[i].data).children]
    /\ pc' = "rendered"
    /\ UNCHANGED <<variant, heap, ret, thrown, loaded, frontmatter, display,
                   rendered, renderThrown, showTime>>

NextPage == SortByDate \/ SortByPubDatetime \/ RenderList

SpecPage == Init /\ [][NextPage]_vars

\* The date a rendered list item shows.
DisplayedDate(item) ==
    LET i == CHOOSE k \in 1..Len(item) : item[k].tag = "Datetime"
    IN item[i].datetime

\* C16 (as claimed): the field getSortedEvents orders by is the field Event
\* displays, so with valid timestamps the dates shown down the rendered list
\* are in descending order.
C16_SortedFieldIsDisplayedField ==
    (pc = "rendered" /\ ValidTimestamps(variant, loaded)) =>
        /\ \A i \in 1..Len(page) :
              DisplayedDate(page[i]) = OrderingField(variant, Result[i])
        /\ \A i \in 1..(Len(page) - 1) :
              /\ ~GetTime(DisplayedDate(page[i])).nan
              /\ ~GetTime(DisplayedDate(page[i + 1])).nan
              /\ GetTime(DisplayedDate(page[i])).v \div 1000
                    >= GetTime(DisplayedDate(page[i + 1])).v \div 1000

\* ------------------------------------------------ the two variants compared
\* Entries whose date and pubDatetime hold the same instant, as an ISO string
\* in one field and a Date object in the other, or as the same string.
SameInstantPosts ==
    { Post(TZero, DateObj(0), "A", TRUE),
      Post(DateObj(0), TZero, "B", FALSE),
      Post(TZeroLate, DateObj(999), "A", TRUE),
      Post(DateObj(-1), TMinus, "A", TRUE),
      Post(TNext, TNext, "A", FALSE),
      Post(TEarly, DateObj(-1500), "B", TRUE) }

InitBoth ==
    /\ variant \in {"date", "pubDatetime"}
    /\ loaded \in UNION {[1..n -> SameInstantPosts] : n \in 0..MaxLen}
    /\ heap = [posts |-> loaded, fresh |-> <<>>]
    /\ ret = NoRef
    /\ thrown = "none"
    /\ pc = "loaded"
    /\ frontmatter = Post(TZero, TZero, "A", TRUE).data
    /\ display = <<>>
    /\ rendered = FALSE
    /\ renderThrown = "none"
    /\ showTime = FALSE
    /\ page = <<>>

SpecBoth == InitBoth /\ [][Next]_vars

SameInstants(seq) ==
    \A i \in 1..Len(seq) :
        /\ ~GetTime(seq[i].data.date).nan
        /\ GetTime(seq[i].data.date) = GetTime(seq[i].data.pubDatetime)

\* C19: on an input whose records hold the same instant in date and in
\* pubDatetime, the two variants return the same order: the result of the
\* variant that ran is the one order either variant produces.
C19_VariantsEquivalent ==
    (pc = "sorted" /\ ret # NoRef /\ SameInstants(loaded)) =>
        /\ SortOutcomes("date", loaded) = SortOutcomes("pubDatetime", loaded)
        /\ SortOutcomes("date", loaded) = {Result}

C19_Witness ==
    /\ pc = "sorted" /\ ret # NoRef
    /\ SameInstants(loaded)
    /\ Len(loaded) = MaxLen
    /\ Result # loaded
    /\ \E i \in 1..Len(loaded) : loaded[i].data.date # loaded[i].data.pubDatetime

\* ------------------------------------------- the truncation to whole seconds
\* Millisecond time values on both sides of the epoch, at and next to the
\* whole-second boundaries.
Milliseconds ==
    {k * 1000 + r : k \in (-MaxSeconds)..MaxSeconds, r \in {0, 1, 500, 999}}

InitFloor ==
    /\ variant \in {"date", "pubDatetime"}
    /\ \E t1, t2 \in Milliseconds :
          loaded = <<Post(DateObj(t1), DateObj(t1), "A", TRUE),
                     Post(DateObj(t2), DateObj(t2), "B", TRUE)>>
    /\ heap = [posts |-> loaded, fresh |-> <<>>]
    /\ ret = NoRef
    /\ thrown = "none"
    /\ pc = "loaded"
    /\ frontmatter = Post(TZero, TZero, "A", TRUE).data
    /\ display = <<>>
    /\ rendered = FALSE
    /\ renderThrown = "none"
    /\ showTime = FALSE
    /\ page = <<>>

SpecFloor == InitFloor /\ [][Next]_vars

\* C20: floor(ms / 1000) is monotone, also below zero, so a record a whole
\* second or more later than another compares as later and stands first.
C20_FloorMonotone ==
    (pc = "sorted" /\ ret # NoRef /\ ValidTimestamps(variant, loaded)) =>
        \A i, j \in 1..Len(loaded) :
            LET ti == TimeOf(variant, loaded[i])
                tj == TimeOf(variant, loaded[j])
            IN /\ ti.v <= tj.v => FloorSeconds(ti).v <= FloorSeconds(tj).v
               /\ tj.v - ti.v >= 1000 =>
                     /\ Comparator(variant, loaded[i], loaded[j]).v > 0
                     /\ \A k, l \in 1..Len(Result) :
                           (Result[k] = loaded[j] /\ Result[l] = loaded[i]) => k < l

C20_Witness ==
    /\ pc = "sorted" /\ ret # NoRef
    /\ Len(loaded) = 2
    /\ TimeOf(variant, loaded[1]).v = -999
    /\ TimeOf(variant, loaded[2]).v = 1
    /\ Result = <<loaded[2], loaded[1]>>

====
